---- MODULE Spec2Model ----
\* Phantom-token plugin (src/plugin/main.go): the TTL cache of JWTs keyed by
\* SHA-256(opaque token), its janitor goroutine, and the two hooks Dispatch
\* routes to.
\*
\* Instants are Unix seconds (a time.Time is modelled by its second count),
\* durations are seconds.  Strings are sequences of tokens: a token is one
\* character (" ", ".", a letter) or a run of characters containing neither
\* whitespace nor a dot (a word such as "Bearer", a base64url segment).
EXTENDS Integers, Sequences, FiniteSets, TLC

\* ---------------------------------------------------------------- bounds
TickStep == 30            \* the clock advances in steps of TickStep seconds
MaxTicks == 3             \* ... at most MaxTicks times
CacheMax == 1             \* the CACHE_MAX_ENTRIES the process runs with under load
DefaultCacheMax == 1      \* intFromEnv's default for it, 10000 in the source, scaled
                          \* down so that the cache can grow past it

\* ------------------------------------------------------ program constants
DefaultClockSkew == 30    \* the default of CLOCK_SKEW_SECONDS, in seconds
GraceWindow == 120        \* 2*time.Minute in enforceCap
FallbackValidity == 30    \* 30*time.Second in introspectForJWTAndExp

MaxNow == MaxTicks * TickStep

\* ---------------------------------------------------------------- strings
WS == {" ", "\t", "\n"}

IsWS(c) == c \in WS

AllWS(s) == \A i \in 1..Len(s) : IsWS(s[i])

Min(a, b) == IF a < b THEN a ELSE b

MinOf(S) == CHOOSE x \in S : \A y \in S : x <= y

MaxOf(S) == CHOOSE x \in S : \A y \in S : y <= x

\* strings.TrimSpace
TrimSpace(s) ==
    LET idx == {i \in 1..Len(s) : ~IsWS(s[i])}
    IN  IF idx = {} THEN <<>> ELSE SubSeq(s, MinOf(idx), MaxOf(idx))

\* (?i): the spellings of the word Bearer the model's headers use
Lower(w) == IF w \in {"Bearer", "bearer", "BEARER"} THEN "bearer" ELSE w

\* the opaque tokens requests bear
Opaques == {<<"a">>, <<"b">>}

\* sha256Hex with every input hashing to one digest
sha256HexColliding(s) == <<"sha256">>

\* sha256Hex: SHA-256 itself is not computed; the digest of s is the pair
\* ("sha256", s), which is deterministic and collision-free like the hash.
sha256Hex(s) == <<"sha256">> \o s

\* an opaque token with dots in it, and one only the cache harness uses
OpaqueDotted == <<"a", ".", "b", ".", "c">>
OpaqueC == <<"c">>

Keys == {sha256Hex(c) : c \in Opaques}

AllKeys == {sha256Hex(c) : c \in Opaques \cup {OpaqueDotted, OpaqueC}}

\* bearerRe = (?i)^\s*Bearer\s+(.+)\s*$ : the ways h matches, as
\* <<index of Bearer, last index of \s+, last index of the group>>
bearerMatches(h) ==
    {x \in (1..Len(h)) \X (1..Len(h)) \X (1..Len(h)) :
        /\ AllWS(SubSeq(h, 1, x[1] - 1))
        /\ Lower(h[x[1]]) = "bearer"
        /\ x[1] < x[2]
        /\ AllWS(SubSeq(h, x[1] + 1, x[2]))
        /\ x[2] < x[3]
        /\ \A i \in (x[2] + 1)..x[3] : h[i] # "\n"
        /\ AllWS(SubSeq(h, x[3] + 1, Len(h)))}

\* bearerRe without its ^ anchor: the word Bearer is found anywhere
extractBearerUnanchored(h) ==
    LET M == {x \in (1..Len(h)) \X (1..Len(h)) \X (1..Len(h)) :
                /\ Lower(h[x[1]]) = "bearer"
                /\ x[1] < x[2]
                /\ AllWS(SubSeq(h, x[1] + 1, x[2]))
                /\ x[2] < x[3]
                /\ \A i \in (x[2] + 1)..x[3] : h[i] # "\n"
                /\ AllWS(SubSeq(h, x[3] + 1, Len(h)))}
    IN  IF M = {} THEN <<>>
        ELSE LET m == CHOOSE x \in M : \A y \in M :
                         y[1] > x[1] \/ (y[1] = x[1] /\ (y[2] < x[2]
                                          \/ (y[2] = x[2] /\ y[3] <= x[3])))
             IN  TrimSpace(SubSeq(h, m[2] + 1, m[3]))

\* extractBearer: FindStringSubmatch takes the greedy match (longest \s+, then
\* longest group); the group is trimmed.
extractBearer(h) ==
    IF h = <<>> THEN <<>>
    ELSE LET M == bearerMatches(h) IN
         IF M = {} THEN <<>>
         ELSE LET m == CHOOSE x \in M : \A y \in M :
                          y[2] < x[2] \/ (y[2] = x[2] /\ y[3] <= x[3])
              IN  TrimSpace(SubSeq(h, m[2] + 1, m[3]))

\* countDots
countDots(s) == Cardinality({i \in 1..Len(s) : s[i] = "."})

\* strings.Split(s, ".")
RECURSIVE Split(_)
Split(s) ==
    LET dots == {i \in 1..Len(s) : s[i] = "."}
    IN  IF dots = {} THEN <<s>>
        ELSE LET d == MinOf(dots)
             IN  <<SubSeq(s, 1, d - 1)>> \o Split(SubSeq(s, d + 1, Len(s)))

\* The payload segments of the model's tokens: what base64.RawURLEncoding
\* decodes the segment to and what json.Unmarshal makes of the bytes.
\*   p60, p90, p150 {"exp": 60}, {"exp": 90}, {"exp": 150}
\*   ps90           {"exp": "90"}
\*   pbool          {"exp": true}
\*   pnone          {"sub": "x"}
\*   pjunk          base64url of bytes that are no JSON object
\* The header and signature words (hA, hB, hX, sig) and the empty segment
\* are base64url too, of bytes that are no JSON; any other segment is not
\* base64url.
PayloadTokens == {"p60", "p90", "p150", "ps90", "pbool", "pnone", "pjunk"}

B64DecodeOk(seg) ==
    \/ seg = <<>>
    \/ Len(seg) = 1 /\ seg[1] \in PayloadTokens \cup {"hA", "hB", "hX", "sig"}

JsonOk(seg) == seg # <<>> /\ seg[1] \in PayloadTokens \ {"pjunk"}

HasExp(seg) == seg[1] # "pnone"

\* expVal.(type): Unmarshal into map[string]any yields float64 for a JSON
\* number and string for a JSON string; json.Number never occurs.
ExpType(seg) ==
    IF seg[1] = "ps90" THEN "string" ELSE IF seg[1] = "pbool" THEN "bool" ELSE "float64"

ExpNumber(seg) == IF seg[1] = "p60" THEN 60 ELSE IF seg[1] = "p150" THEN 150 ELSE 90

\* parseJWTExp: [err, exp]
parseJWTExp(jwt) ==
    LET parts == Split(jwt) IN
    IF Len(parts) # 3 THEN [err |-> "not a compact JWS", exp |-> 0]
    ELSE IF ~B64DecodeOk(parts[2]) THEN [err |-> "payload b64 decode", exp |-> 0]
    ELSE IF ~JsonOk(parts[2]) THEN [err |-> "payload json", exp |-> 0]
    ELSE IF ~HasExp(parts[2]) THEN [err |-> "no exp claim", exp |-> 0]
    ELSE IF ExpType(parts[2]) = "float64" THEN [err |-> "", exp |-> ExpNumber(parts[2])]
    ELSE [err |-> "exp type unsupported", exp |-> 0]

\* ------------------------------------------------------------------ state
VARIABLES
    now,       \* time.Now()
    data,      \* jwtCache.data : key -> cacheEntry
    th,        \* the goroutines running a request or a cache call, one record each
    jan,       \* the janitor goroutine started by newJWTCache
    lastSet,   \* history: what the most recent call of set met and did
    lastIntro, \* history, per key: the last introspection phantomAuthCheck accepted
    env,       \* the environment the process was started with
    mu         \* jwtCache.mu : who holds the RWMutex

vars == <<now, data, th, jan, lastSet, lastIntro, env, mu>>

\* sync.RWMutex: w is the goroutine holding the write lock (0: none), r the
\* goroutines holding the read lock.
MuFree == [w |-> 0, r |-> {}]

CanRLock(m) == m.w = 0

CanLock(m) == m.w = 0 /\ m.r = {}

RLock(m, t) == [m EXCEPT !.r = @ \cup {t}]

\* a read lock that is never given back
RUnlockForgotten(m, t) == m

RUnlock(m, t) == [m EXCEPT !.r = @ \ {t}]

Lock(m, t) == [m EXCEPT !.w = t]

Unlock(m, t) == [m EXCEPT !.w = 0]

\* strconv.Atoi on a string of characters: [ok, val]
Digits == <<"0", "1", "2", "3", "4", "5", "6", "7", "8", "9">>

DigitVal(c) == (CHOOSE i \in 1..10 : Digits[i] = c) - 1

RECURSIVE AtoiDigits(_)
AtoiDigits(s) ==
    IF s = <<>> THEN 0
    ELSE 10 * AtoiDigits(SubSeq(s, 1, Len(s) - 1)) + DigitVal(s[Len(s)])

Atoi(s) ==
    LET signed == s # <<>> /\ s[1] \in {"-", "+"}
        ds == IF signed THEN Tail(s) ELSE s
    IN  IF ds = <<>> \/ \E i \in 1..Len(ds) : \A j \in 1..10 : Digits[j] # ds[i]
        THEN [ok |-> FALSE, val |-> 0]
        ELSE [ok |-> TRUE,
              val |-> IF signed /\ s[1] = "-" THEN 0 - AtoiDigits(ds) ELSE AtoiDigits(ds)]

\* intFromEnv
intFromEnv(v, def) ==
    IF v = <<>> THEN def
    ELSE LET r == Atoi(v) IN
         IF ~r.ok \/ r.val < 0 THEN def ELSE r.val

\* durationFromEnvSeconds, in seconds
durationFromEnvSeconds(v, def) ==
    IF v = <<>> THEN def
    ELSE LET r == Atoi(v) IN
         IF ~r.ok \/ r.val < 0 THEN def ELSE r.val

\* os.Getenv: an unset variable reads as the empty string
Getenv(name) == env[name]

\* the environment with these two variables set and no other that matters
Environ(c, k) == [CACHE_MAX_ENTRIES |-> c, CLOCK_SKEW_SECONDS |-> k]

\* cacheMax = intFromEnv("CACHE_MAX_ENTRIES", 10000)
cacheMax == intFromEnv(Getenv("CACHE_MAX_ENTRIES"), DefaultCacheMax)

\* clockSkew = durationFromEnvSeconds("CLOCK_SKEW_SECONDS", 30)
clockSkew == durationFromEnvSeconds(Getenv("CLOCK_SKEW_SECONDS"), DefaultClockSkew)

\* the decimal numeral of a one-digit capacity
EnvOf(n) == <<Digits[n + 1]>>

\* A nil pointer or nil map; a non-nil one is a record with nil |-> FALSE.
NilV == [nil |-> TRUE]

EmptyMap == [x \in {} |-> <<>>]

MapGet(m, k) == IF k \in DOMAIN m THEN m[k] ELSE <<>>

MapSet(m, k, v) == [x \in DOMAIN m \cup {k} |-> IF x = k THEN v ELSE m[x]]

\* coprocess.Object, the fields the plugin reads or writes
NilObj == [HookName |-> "", Request |-> NilV, Metadata |-> NilV, Session |-> NilV]

\* cacheEntry{JWT, Expires}.  ttlOk is history: whether Expires - clockSkew was
\* after the instant of the insert.
NoEntry == [ok |-> FALSE, JWT |-> <<>>, Expires |-> 0, ttlOk |-> TRUE]
NoRet == [jwt |-> <<>>, ok |-> FALSE]

\* lastIntro[k]: the last introspection phantomAuthCheck accepted for key k,
\* while its outcome stands.  state is stored (set kept the entry, and it is
\* still the one in the map), nostore (set was a no-op) or none (no such
\* introspection yet, or the entry has since left the map); exp is the JWT's
\* expiry.
NoIntro == [state |-> "none", exp |-> 0]

\* A goroutine: pc, the hook or cache call it runs (op), get's locals (key,
\* tnow, ce, ret), phantomAuthCheck's locals (opaque, jwt, exp) and the
\* record it works on (obj).  History: li (lastIntro[key] when get read the
\* map), did (the cache and network operations performed, in order), path
\* (the return statement taken), in (the record as Dispatch received it),
\* resp (what the introspection endpoint answered).
NoResp == [kind |-> "none"]

Idle == [pc |-> "idle", op |-> "none", key |-> <<>>, tnow |-> 0, ce |-> NoEntry,
         ret |-> NoRet, li |-> NoIntro, obj |-> NilObj, opaque |-> <<>>,
         jwt |-> <<>>, exp |-> 0, did |-> <<>>, path |-> "", in |-> NilObj,
         resp |-> NoResp]

NoSet == [called |-> FALSE, late |-> FALSE, changed |-> FALSE]

\* ------------------------------------------------------------- jwtCache
\* ce, ok := c.data[key]
lookup(d, key) ==
    IF key \in DOMAIN d
    THEN [ok |-> TRUE, JWT |-> d[key].JWT, Expires |-> d[key].Expires,
          ttlOk |-> d[key].ttlOk]
    ELSE NoEntry

\* delete(c.data, key)
delete(d, key) == [k \in DOMAIN d \ {key} |-> d[k]]

\* now.After(ce.Expires) with the comparison weakened to >=
getExpiredAtOrAfter(tnow, ce) == tnow >= ce.Expires

\* now.After(ce.Expires) dropped: every present entry is served
getExpiredNever(tnow, ce) == FALSE

\* now.After(ce.Expires)
getExpired(tnow, ce) == tnow > ce.Expires

\* the TTL test of set dropped: every entry is inserted
setAcceptsAlways(tnow, exp) == TRUE

\* time.Now().Add(clockSkew).Before(exp)
setAccepts(tnow, exp) == tnow + clockSkew < exp

\* set, under c.mu.Lock(): the map after the call made at instant tnow
\* set that, finding the key present, replaces the JWT and keeps the expiry
setKeepsExpires(d, tnow, key, jwt, exp) ==
    IF setAccepts(tnow, exp)
    THEN [k \in DOMAIN d \cup {key} |->
            IF k = key
            THEN [JWT |-> jwt,
                  Expires |-> IF key \in DOMAIN d THEN d[key].Expires ELSE exp,
                  ttlOk |-> (exp - clockSkew > tnow)]
            ELSE d[k]]
    ELSE d

set(d, tnow, key, jwt, exp) ==
    IF setAccepts(tnow, exp)
    THEN [k \in DOMAIN d \cup {key} |->
            IF k = key
            THEN [JWT |-> jwt, Expires |-> exp, ttlOk |-> (exp - clockSkew > tnow)]
            ELSE d[k]]
    ELSE d

\* purgeExpired with the test the wrong way round
purgeExpiredReversed(d, pnow) ==
    [k \in {x \in DOMAIN d : ~(d[x].Expires > pnow)} |-> d[k]]

\* purgeExpired, under c.mu.Lock(): pnow was read before the lock was taken
purgeExpired(d, pnow) ==
    [k \in {x \in DOMAIN d : ~(pnow > d[x].Expires)} |-> d[k]]

\* !it.exp.After(now) || it.exp.Sub(now) < 2*time.Minute
nearlyDead(e, tnow) == ~(e.Expires > tnow) \/ e.Expires - tnow < GraceWindow

\* the sequences of n different members of S
InjSeqs(S, n) == {q \in [1..n -> S] : \A i, j \in 1..n : i # j => q[i] # q[j]}

\* the map without the keys of the sequence q
Without(d, q) == [k \in DOMAIN d \ {q[i] : i \in 1..Len(q)} |-> d[k]]

\* enforceCap with the second loop (arbitrary victims) left out
enforceCapFirstLoopOnly(d, tnow) ==
    IF cacheMax <= 0 \/ Cardinality(DOMAIN d) <= cacheMax
    THEN {<<>>}
    ELSE LET toDrop == Cardinality(DOMAIN d) - cacheMax
             nd == {k \in DOMAIN d : nearlyDead(d[k], tnow)}
             n1 == Min(toDrop, Cardinality(nd))
         IN  InjSeqs(nd, n1)

\* enforceCap with one loop only, which drops whatever the map range yields
enforceCapNoPreference(d, tnow) ==
    IF cacheMax <= 0 \/ Cardinality(DOMAIN d) <= cacheMax
    THEN {<<>>}
    ELSE InjSeqs(DOMAIN d, Cardinality(DOMAIN d) - cacheMax)

\* enforceCap, under c.mu.Lock(): the keys the call can delete, in the order
\* it deletes them.  Go ranges over a map in an unspecified order, so the
\* first loop drops any toDrop (or all) of the nearly dead entries and the
\* second any of the rest until toDrop entries are gone.
enforceCap(d, tnow) ==
    IF cacheMax <= 0 \/ Cardinality(DOMAIN d) <= cacheMax
    THEN {<<>>}
    ELSE LET toDrop == Cardinality(DOMAIN d) - cacheMax
             nd == {k \in DOMAIN d : nearlyDead(d[k], tnow)}
             n1 == Min(toDrop, Cardinality(nd))
         IN  UNION {
               {q1 \o q2 : q2 \in InjSeqs(DOMAIN d \ {q1[i] : i \in 1..n1}, toDrop - n1)} :
               q1 \in InjSeqs(nd, n1)}

\* history: the entries of the keys in ks left the map, by the delete of a
\* lookup, by the sweep or by the capacity eviction
Dropped(ks) ==
    [k \in DOMAIN lastIntro |->
        IF k \in ks /\ lastIntro[k].state = "stored" THEN NoIntro ELSE lastIntro[k]]

\* ------------------------------------------------- get, step by step
\* now := time.Now()                                   (get, line 79)
get_start(t, k) ==
    /\ th[t].pc = "idle"
    /\ th' = [th EXCEPT ![t] = [Idle EXCEPT !.pc = "get_read", !.op = "get",
                                            !.key = k, !.tnow = now]]
    /\ UNCHANGED <<now, data, jan, lastSet, lastIntro, env, mu>>

\* RLock; ce, ok := c.data[key]; RUnlock; the two tests that follow
get_read(t) ==
    /\ th[t].pc = "get_read"
    /\ CanRLock(mu)
    /\ LET ce == lookup(data, th[t].key) IN
       th' = [th EXCEPT ![t].ce = ce,
                        ![t].li = lastIntro[th[t].key],
                        ![t].did = Append(@, "get"),
                        ![t].pc = IF ce.ok /\ getExpired(th[t].tnow, ce)
                                  THEN "get_delete" ELSE "get_ret",
                        ![t].ret = IF ce.ok /\ ~getExpired(th[t].tnow, ce)
                                   THEN [jwt |-> ce.JWT, ok |-> TRUE] ELSE NoRet]
    /\ UNCHANGED <<now, data, jan, lastSet, lastIntro, env, mu>>

\* Lock; delete(c.data, key); Unlock; return "", false
get_delete(t) ==
    /\ th[t].pc = "get_delete"
    /\ CanLock(mu)
    /\ data' = delete(data, th[t].key)
    /\ th' = [th EXCEPT ![t].pc = "get_ret", ![t].ret = NoRet,
                        ![t].did = Append(@, "delete")]
    /\ lastIntro' = Dropped({th[t].key} \cap DOMAIN data)
    /\ UNCHANGED <<now, jan, lastSet, env, mu>>

\* the caller of the cache harness takes the result
get_return(t) ==
    /\ th[t].pc = "get_ret"
    /\ th[t].op = "get"
    /\ th' = [th EXCEPT ![t] = Idle]
    /\ UNCHANGED <<now, data, jan, lastSet, lastIntro, env, mu>>

\* ------------------------------------------------- set, one critical section
\* Lock; if time.Now().Add(clockSkew).Before(exp) { insert }; Unlock
set_call(k, j, e) ==
    /\ CanLock(mu)
    /\ data' = set(data, now, k, j, e)
    /\ lastSet' = [called |-> TRUE, late |-> (e - clockSkew <= now),
                   changed |-> (data' # data)]
    /\ UNCHANGED <<now, th, jan, lastIntro, env, mu>>

\* ------------------------------------------------- the janitor goroutine
\* for range t.C { c.purgeExpired(); c.enforceCap() }
\* pnow: purgeExpired's now.  History: over, whether the last enforceCap
\* found len(c.data) above cacheMax; evicted, the Expires of the entries it
\* deleted, in the order of deletion; swept, whether the purgeExpired of the
\* pass under way deleted an entry.
JanIdle == [pc |-> "wait", pnow |-> 0, over |-> FALSE, evicted |-> <<>>, swept |-> FALSE]

\* the ticker fires; purgeExpired reads now := time.Now()
janitor_tick ==
    /\ jan.pc = "wait"
    /\ jan' = [jan EXCEPT !.pc = "purge", !.pnow = now, !.evicted = <<>>]
    /\ UNCHANGED <<now, data, th, lastSet, lastIntro, env, mu>>

janitor_purge ==
    /\ jan.pc = "purge"
    /\ CanLock(mu)
    /\ data' = purgeExpired(data, jan.pnow)
    /\ jan' = [jan EXCEPT !.pc = "cap", !.pnow = 0, !.swept = (data' # data)]
    /\ lastIntro' = Dropped(DOMAIN data \ DOMAIN data')
    /\ UNCHANGED <<now, th, lastSet, env, mu>>

janitor_enforceCap ==
    /\ jan.pc = "cap"
    /\ cacheMax > 0 => CanLock(mu)
    /\ \E q \in enforceCap(data, now) :
         /\ data' = Without(data, q)
         /\ jan' = [jan EXCEPT !.pc = "wait", !.swept = FALSE,
                                !.over = (cacheMax > 0 /\ Cardinality(DOMAIN data) > cacheMax),
                                !.evicted = [i \in 1..Len(q) |-> data[q[i]].Expires]]
         /\ lastIntro' = Dropped({q[i] : i \in 1..Len(q)})
    /\ UNCHANGED <<now, th, lastSet, env, mu>>

\* ------------------------------------------------- the clock
Tick ==
    /\ now < MaxNow
    /\ now' = now + TickStep
    /\ UNCHANGED <<data, th, jan, lastSet, lastIntro, env, mu>>

\* ------------------------------------------------- the cache on its own
\* One goroutine calls get, step by step; calls of set and the janitor run
\* between its steps.
Getters == {1}
Threads == {1, 2}

\* The expiry instants set is called with.
ExpChoices == {DefaultClockSkew, DefaultClockSkew + TickStep, GraceWindow + 4 * TickStep}

HarnessKeys == Keys \cup {sha256Hex(OpaqueC)}

HarnessJwts(k) == {k \o <<".", "p", ".", "sig">>}

InitCache ==
    /\ now = 0
    /\ data = [k \in {} |-> NoEntry]
    /\ th = [t \in Threads |-> Idle]
    /\ jan = JanIdle
    /\ lastSet = NoSet
    /\ lastIntro = [k \in AllKeys |-> NoIntro]
    /\ env = Environ(EnvOf(CacheMax), <<>>)
    /\ mu = MuFree

NextCache ==
    \/ \E t \in Getters, k \in HarnessKeys : get_start(t, k)
    \/ \E t \in Getters : get_read(t)
    \/ \E t \in Getters : get_delete(t)
    \/ \E t \in Getters : get_return(t)
    \/ \E k \in HarnessKeys, e \in ExpChoices : \E j \in HarnessJwts(k) : set_call(k, j, e)
    \/ janitor_tick
    \/ janitor_purge
    \/ janitor_enforceCap
    \/ Tick

SpecCache == InitCache /\ [][NextCache]_vars

\* ------------------------------------------------- the cache with no reader
\* Entries are written and never looked up; the ticker keeps firing and the
\* janitor goroutine keeps being scheduled and, sync.RWMutex letting no
\* writer starve, keeps getting the lock.
NextSweep ==
    \/ \E k \in HarnessKeys, e \in ExpChoices : \E j \in HarnessJwts(k) : set_call(k, j, e)
    \/ janitor_tick
    \/ janitor_purge
    \/ janitor_enforceCap
    \/ Tick

SpecSweep ==
    /\ InitCache
    /\ [][NextSweep]_vars
    /\ WF_vars(janitor_tick)
    /\ WF_vars(janitor_purge)
    /\ WF_vars(janitor_enforceCap)

\* ------------------------------------------------- the cache, any configuration
\* The cache harness in a process started with CACHE_MAX_ENTRIES unset, not a
\* number, zero or negative.
EnvValues == {<<>>, <<"x">>, <<"0">>, <<"-", "1">>}

InitConfig ==
    /\ now = 0
    /\ data = [k \in {} |-> NoEntry]
    /\ th = [t \in Threads |-> Idle]
    /\ jan = JanIdle
    /\ lastSet = NoSet
    /\ lastIntro = [k \in AllKeys |-> NoIntro]
    /\ env \in {Environ(v, <<>>) : v \in EnvValues}
    /\ mu = MuFree

SpecConfig == InitConfig /\ [][NextCache]_vars

\* ------------------------------------------------- the hooks' helpers
\* &coprocess.MiniRequestObject{}, &coprocess.ReturnOverrides{}, &coprocess.SessionState{}
NewRequest == [nil |-> FALSE, Headers |-> EmptyMap, SetHeaders |-> NilV,
               ReturnOverrides |-> NilV]

NewOverrides == [nil |-> FALSE, ResponseCode |-> 0, ResponseError |-> <<>>,
                 ResponseBody |-> <<>>, Headers |-> NilV, OverrideError |-> FALSE]

NewSession == [nil |-> FALSE, Rate |-> 0, Per |-> 0, QuotaMax |-> 0,
               QuotaRemaining |-> 0, QuotaRenewalRate |-> 0, LastUpdated |-> <<>>,
               IdExtractorDeadline |-> 0]

MapOf(x) == IF x.nil THEN EmptyMap ELSE x.m

\* obj.GetRequest().GetHeaders(): the getters answer nil for a nil receiver
GetHeaders(o) == IF o.Request.nil THEN EmptyMap ELSE o.Request.Headers

MsgMissing == <<"Missing bearer token">>
MsgInactive == <<"Token inactive or invalid">>
MsgPost == <<"JWT missing post-auth">>
WwwAuthenticate == <<"Bearer error=\"invalid_token\"">>

\* fmt.Sprintf("Introspection error: %v", err)
MsgIntrospection(err) == <<"Introspection error: ">> \o err

\* unauthorized
unauthorized(o, msg) ==
    LET r0 == IF o.Request.nil THEN NewRequest ELSE o.Request
        ro0 == IF r0.ReturnOverrides.nil THEN NewOverrides ELSE r0.ReturnOverrides
        ro1 == [ro0 EXCEPT !.ResponseCode = 401,
                           !.ResponseError = msg,
                           !.ResponseBody = msg,
                           !.Headers = [nil |-> FALSE,
                                        m |-> MapSet(MapOf(ro0.Headers), "WWW-Authenticate",
                                                     WwwAuthenticate)],
                           !.OverrideError = TRUE]
    IN  [o EXCEPT !.Request = [r0 EXCEPT !.ReturnOverrides = ro1]]

\* ensureMetadata
ensureMetadata(o) ==
    IF o.Metadata.nil THEN [o EXCEPT !.Metadata = [nil |-> FALSE, m |-> EmptyMap]] ELSE o

\* ensureSession
ensureSession(o) ==
    LET s0 == IF o.Session.nil THEN NewSession ELSE o.Session
    IN  [o EXCEPT !.Session = [s0 EXCEPT !.Rate = 0, !.Per = 0, !.QuotaMax = -1,
                                          !.QuotaRemaining = -1, !.QuotaRenewalRate = 0,
                                          !.LastUpdated = <<>>,
                                          !.IdExtractorDeadline = 0]]

\* phantomAuthCheck, lines 287-291 and 305-309: the accepting return
accept(o, jwt, opaque) ==
    LET o1 == ensureMetadata(o)
        o2 == [o1 EXCEPT !.Metadata.m =
                  MapSet(MapSet(o1.Metadata.m, "phantom_jwt", jwt), "token", opaque)]
    IN  ensureSession(o2)

\* injectJwtPostKeyAuth: [fault, obj].  fault: obj.Request is dereferenced
\* without a nil test, a nil pointer dereference when the record has none.
injectJwtPostKeyAuth(o) ==
    LET jwt == IF o.Metadata.nil THEN <<>> ELSE MapGet(o.Metadata.m, "phantom_jwt") IN
    IF jwt = <<>> THEN [fault |-> FALSE, obj |-> unauthorized(o, MsgPost)]
    ELSE IF o.Request.nil THEN [fault |-> TRUE, obj |-> o]
    ELSE [fault |-> FALSE,
          obj |-> [o EXCEPT !.Request.SetHeaders =
                      [nil |-> FALSE,
                       m |-> MapSet(MapOf(o.Request.SetHeaders), "Authorization",
                                    <<"Bearer", " ">> \o jwt)]]]

\* ------------------------------------------------- the introspection endpoint
\* What httpClient.Do and the reading of the body give: a transport error or
\* timeout, a status other than 200, or a 200 with a body.
ErrTransport == <<"Post: context deadline exceeded">>

\* io.LimitReader(resp.Body, 512): what a status other than 200 has read of
\* its body
ErrBodyLimit == 512

\* io.ReadAll(io.LimitReader(r, n))
LimitRead(b, n) == SubSeq(b, 1, IF Len(b) < n THEN Len(b) ELSE n)

\* fmt.Errorf("introspection status %d: %s", code, TrimSpace(first 512 bytes))
ErrStatus(code, body) ==
    <<"introspection status ", code, ": ">> \o TrimSpace(LimitRead(body, ErrBodyLimit))

\* introspectForJWTAndExp with every 200 body taken for a token
introspectAnyBodyIsToken(resp, tnow) ==
    IF resp.kind = "transport" THEN [jwt |-> <<>>, exp |-> 0, err |-> ErrTransport]
    ELSE IF resp.kind = "status" THEN [jwt |-> <<>>, exp |-> 0, err |-> ErrStatus(resp.code, resp.body)]
    ELSE [jwt |-> <<"x">> \o TrimSpace(resp.body), exp |-> tnow + 3 * DefaultClockSkew, err |-> <<>>]

\* introspectForJWTAndExp with a fallback validity of an hour
introspectLongFallback(resp, tnow) ==
    IF resp.kind = "transport" THEN [jwt |-> <<>>, exp |-> 0, err |-> ErrTransport]
    ELSE IF resp.kind = "status" THEN [jwt |-> <<>>, exp |-> 0, err |-> ErrStatus(resp.code, resp.body)]
    ELSE LET j == TrimSpace(resp.body) IN
         IF countDots(j) # 2 THEN [jwt |-> <<>>, exp |-> 0, err |-> <<>>]
         ELSE LET p == parseJWTExp(j) IN
              IF p.err # "" THEN [jwt |-> j, exp |-> tnow + 3600, err |-> <<>>]
              ELSE [jwt |-> j, exp |-> p.exp, err |-> <<>>]

\* introspectForJWTAndExp, from httpClient.Do on: [jwt, exp, err]; tnow is
\* the time.Now() of the fallback
introspectForJWTAndExp(resp, tnow) ==
    IF resp.kind = "transport" THEN [jwt |-> <<>>, exp |-> 0, err |-> ErrTransport]
    ELSE IF resp.kind = "status" THEN [jwt |-> <<>>, exp |-> 0, err |-> ErrStatus(resp.code, resp.body)]
    ELSE LET j == TrimSpace(resp.body) IN
         IF countDots(j) # 2 THEN [jwt |-> <<>>, exp |-> 0, err |-> <<>>]
         ELSE LET p == parseJWTExp(j) IN
              IF p.err # "" THEN [jwt |-> j, exp |-> tnow + FallbackValidity, err |-> <<>>]
              ELSE [jwt |-> j, exp |-> p.exp, err |-> <<>>]

\* The identity provider: the JWT it issues for an opaque token names the
\* token's subject in its header segment.
Hdr(c) == IF c = <<"a">> THEN "hA" ELSE IF c = <<"b">> THEN "hB" ELSE "hX"

JwtOf(c, payload) == <<Hdr(c), ".", payload, ".", "sig">>

IssuedFor(c) == {JwtOf(c, p) : p \in PayloadTokens \cup {"!!"}}

\* ------------------------------------------------- Dispatch, step by step
\* A record is rejected when it carries the 401 short-circuit.
Rejected(o) ==
    /\ ~o.Request.nil
    /\ ~o.Request.ReturnOverrides.nil
    /\ o.Request.ReturnOverrides.ResponseCode = 401

\* Dispatch with no default case: every name but the auth check's runs the
\* post-key-auth hook
dispatchNoDefault(t, o, op0) ==
    LET base == [Idle EXCEPT !.op = o.HookName, !.in = o, !.opaque = op0] IN
    IF o.HookName = "PhantomAuthCheck"
    THEN LET opaque == extractBearer(MapGet(GetHeaders(o), "Authorization")) IN
         IF opaque = <<>>
         THEN [base EXCEPT !.pc = "done", !.obj = unauthorized(o, MsgMissing),
                           !.path = "nobearer", !.opaque = <<>>]
         ELSE [base EXCEPT !.pc = "get_read", !.key = sha256Hex(opaque), !.tnow = now,
                           !.opaque = opaque, !.obj = o]
    ELSE LET r == injectJwtPostKeyAuth(o) IN
         [base EXCEPT !.pc = IF r.fault THEN "panic" ELSE "done", !.obj = r.obj,
                      !.path = IF r.fault THEN "fault"
                               ELSE IF Rejected(r.obj) /\ r.obj # o THEN "nojwt" ELSE "inject"]

\* Dispatch up to the first blocking point: phantomAuthCheck up to get's
\* time.Now(); injectJwtPostKeyAuth and the default case to their return.
dispatch(t, o, op0) ==
    LET base == [Idle EXCEPT !.op = o.HookName, !.in = o, !.opaque = op0] IN
    IF o.HookName = "PhantomAuthCheck"
    THEN LET opaque == extractBearer(MapGet(GetHeaders(o), "Authorization")) IN
         IF opaque = <<>>
         THEN [base EXCEPT !.pc = "done", !.obj = unauthorized(o, MsgMissing),
                           !.path = "nobearer", !.opaque = <<>>]
         ELSE [base EXCEPT !.pc = "get_read", !.key = sha256Hex(opaque), !.tnow = now,
                           !.opaque = opaque, !.obj = o]
    ELSE IF o.HookName = "InjectJwtPostKeyAuth"
    THEN LET r == injectJwtPostKeyAuth(o) IN
         [base EXCEPT !.pc = IF r.fault THEN "panic" ELSE "done", !.obj = r.obj,
                      !.path = IF r.fault THEN "fault"
                               ELSE IF Rejected(r.obj) /\ r.obj # o THEN "nojwt" ELSE "inject"]
    ELSE [base EXCEPT !.pc = "done", !.obj = o, !.path = "default"]

\* the host calls Dispatch with a record
dispatch_start(t, o) ==
    /\ th[t].pc = "idle"
    /\ th' = [th EXCEPT ![t] = dispatch(t, o, <<>>)]
    /\ UNCHANGED <<now, data, jan, lastSet, lastIntro, env, mu>>

\* phantomAuthCheck once get has returned: the hit return, or the
\* introspection request goes out
phantom_after_get(t) ==
    /\ th[t].pc = "get_ret"
    /\ th[t].op = "PhantomAuthCheck"
    /\ th' = [th EXCEPT ![t] =
                LET r == [@ EXCEPT !.key = <<>>, !.tnow = 0, !.ce = NoEntry,
                                   !.ret = NoRet, !.li = NoIntro]
                IN  IF th[t].ret.ok
                    THEN [r EXCEPT !.pc = "done", !.path = "hit",
                                   !.obj = accept(@, th[t].ret.jwt, th[t].opaque)]
                    ELSE [r EXCEPT !.pc = "introspect", !.key = th[t].key,
                                   !.did = Append(@, "introspect")]]
    /\ UNCHANGED <<now, data, jan, lastSet, lastIntro, env, mu>>

\* introspectForJWTAndExp returns, and the two rejecting returns after it
introspect_return(t, resp) ==
    /\ th[t].pc = "introspect"
    /\ LET r == introspectForJWTAndExp(resp, now) IN
       th' = [th EXCEPT ![t] =
                IF r.err # <<>>
                THEN [@ EXCEPT !.pc = "done", !.path = "error", !.key = <<>>,
                               !.resp = resp,
                               !.obj = unauthorized(@, MsgIntrospection(r.err))]
                ELSE IF r.jwt = <<>>
                THEN [@ EXCEPT !.pc = "done", !.path = "inactive", !.key = <<>>,
                               !.resp = resp,
                               !.obj = unauthorized(@, MsgInactive)]
                ELSE [@ EXCEPT !.pc = "set", !.jwt = r.jwt, !.exp = r.exp,
                               !.resp = resp]]
    /\ UNCHANGED <<now, data, jan, lastSet, lastIntro, env, mu>>

\* no margin taken off
storeUntilNoMargin(exp) == exp

\* the margin taken off twice
storeUntilTwice(exp) == exp - 2 * clockSkew

\* storeUntil := exp.Add(-clockSkew)
storeUntil(exp) == exp - clockSkew

\* cStore.set(key, jwt, storeUntil); the accepting return
phantom_set(t) ==
    /\ th[t].pc = "set"
    /\ CanLock(mu)
    /\ LET d == set(data, now, th[t].key, th[t].jwt, storeUntil(th[t].exp))
       IN  /\ data' = d
           /\ lastIntro' = [lastIntro EXCEPT ![th[t].key] =
                  [state |-> IF now < th[t].exp - 2 * clockSkew
                             THEN "stored" ELSE "nostore",
                   exp |-> th[t].exp]]
    /\ th' = [th EXCEPT ![t] = [@ EXCEPT !.pc = "done", !.path = "miss",
                                         !.did = Append(@, "set"),
                                         !.key = <<>>, !.jwt = <<>>, !.exp = 0,
                                         !.obj = accept(@, th[t].jwt, th[t].opaque)]]
    /\ UNCHANGED <<now, jan, lastSet, env, mu>>

\* the host, having had phantomAuthCheck accept the record, calls Dispatch
\* with the same record for the post-key-auth hook
dispatch_post(t) ==
    /\ th[t].pc = "done"
    /\ th[t].op = "PhantomAuthCheck"
    /\ ~Rejected(th[t].obj)
    /\ th' = [th EXCEPT ![t] =
                dispatch(t, [th[t].obj EXCEPT !.HookName = "InjectJwtPostKeyAuth"],
                         th[t].opaque)]
    /\ UNCHANGED <<now, data, jan, lastSet, lastIntro, env, mu>>

\* the host takes the record Dispatch returned
dispatch_return(t) ==
    /\ th[t].pc = "done"
    /\ th' = [th EXCEPT ![t] = Idle]
    /\ UNCHANGED <<now, data, jan, lastSet, lastIntro, env, mu>>

\* ------------------------------------------------- the plugin under load
\* Two requests at a time, each bearing one of two opaque tokens or none.
HdrA == <<"Bearer", " ", "a">>
HdrB == <<" ", "bearer", " ", "\t", "b", " ">>
HdrBasic == <<"Basic", " ", "a">>

Req(h) == [NewRequest EXCEPT !.Headers = MapSet(EmptyMap, "Authorization", h)]

Obj(hook, req, meta, sess) ==
    [HookName |-> hook, Request |-> req, Metadata |-> meta, Session |-> sess]

\* Both tokens reach the first goroutine, one of them the second: the runs
\* left out are those with the two tokens' names exchanged.
LoadObjs(t) ==
    {Obj("PhantomAuthCheck", Req(h), NilV, NilV) :
        h \in IF t = 1 THEN {HdrA, HdrB} ELSE {HdrA}}

Body(b) == [kind |-> "body", body |-> b]
Status(code, b) == [kind |-> "status", code |-> code, body |-> b]

\* a body one byte longer than what is read of it, whitespace first
LongBody == [i \in 1..(ErrBodyLimit + 1) |-> IF i = 1 THEN " " ELSE "x"]

LoadResponses(c) ==
    {[kind |-> "transport"], Status("500", <<"boom", "\n">>), Body(<<>>),
     Body(JwtOf(c, "p60")), Body(<<" ">> \o JwtOf(c, "p90") \o <<"\n">>)}

Init ==
    /\ now = 0
    /\ data = [k \in {} |-> NoEntry]
    /\ th = [t \in Threads |-> Idle]
    /\ jan = JanIdle
    /\ lastSet = NoSet
    /\ lastIntro = [k \in AllKeys |-> NoIntro]
    /\ env = Environ(EnvOf(CacheMax), <<>>)
    /\ mu = MuFree

Next ==
    \/ \E t \in Threads : \E o \in LoadObjs(t) : dispatch_start(t, o)
    \/ \E t \in Threads : get_read(t)
    \/ \E t \in Threads : get_delete(t)
    \/ \E t \in Threads : phantom_after_get(t)
    \/ \E t \in Threads : \E resp \in LoadResponses(th[t].opaque) : introspect_return(t, resp)
    \/ \E t \in Threads : phantom_set(t)
    \/ \E t \in Threads : dispatch_post(t)
    \/ \E t \in Threads : dispatch_return(t)
    \/ janitor_tick
    \/ janitor_purge
    \/ janitor_enforceCap
    \/ Tick

Spec == Init /\ [][Next]_vars

\* ------------------------------------------------- one Dispatch at a time
\* Any record the host can send, with every hook name and with and without
\* the request, metadata, session and override sub-records.  One invocation
\* runs at a time and the clock stands still: what is checked here is what an
\* invocation does to its own record, which no other goroutine touches.
\* What it does to the cache, which concurrent invocations and the janitor
\* share, is checked under the specifications that have them.
HookNames == {"PhantomAuthCheck", "InjectJwtPostKeyAuth", "MyPreHook", "phantomauthcheck"}

\* Authorization values that bear a token ...
BearerHeaders ==
    {HdrB, <<"BEARER", "\t">> \o OpaqueDotted \o <<" ", " ">>}

\* ... and values that do not: empty, another scheme, the word alone, the
\* word and whitespace, no whitespace after the word, a line break inside.
MalformedHeaders ==
    {<<>>, HdrBasic, <<"Bearer">>, <<"Bearer", " ", "\t">>, <<"Bearer", ".", "a">>,
     <<"a", " ", "Bearer", " ", "a">>, <<"Bearer", " ", "a", "\n", "b">>}

SomeJwt == JwtOf(<<"a">>, "p90")

DispatchRequests ==
    {NilV, NewRequest}
    \cup {Req(h) : h \in BearerHeaders \cup MalformedHeaders}
    \cup {[Req(h) EXCEPT !.SetHeaders = sh, !.ReturnOverrides = ro] :
            h \in {HdrB, <<>>},
            sh \in {NilV, [nil |-> FALSE, m |-> MapSet(EmptyMap, "Authorization", HdrA)]},
            ro \in {NilV, NewOverrides}}

DispatchMetadata ==
    {NilV,
     [nil |-> FALSE, m |-> EmptyMap],
     [nil |-> FALSE, m |-> MapSet(EmptyMap, "phantom_jwt", <<>>)],
     [nil |-> FALSE, m |-> MapSet(EmptyMap, "phantom_jwt", SomeJwt)]}

DispatchSessions ==
    {NilV, [NewSession EXCEPT !.Rate = 5, !.Per = 1, !.QuotaMax = 10,
                              !.QuotaRemaining = 3, !.QuotaRenewalRate = 60]}

DispatchObjs ==
    {Obj(hk, rq, md, ss) : hk \in HookNames, rq \in DispatchRequests,
                           md \in DispatchMetadata, ss \in DispatchSessions}

DispatchResponses(c) ==
    LoadResponses(c)
    \cup {Body(<<"inactive">>), Body(<<"a", ".", "b">>), Body(<<"a", ".", "b", ".", "c", ".", "d">>)}
    \cup {Body(JwtOf(c, p)) : p \in {"ps90", "pnone", "pjunk", "!!"}}
    \cup {Status("500", <<>>), Status("401", LongBody)}

NextDispatch ==
    \/ \E o \in DispatchObjs : dispatch_start(1, o)
    \/ get_read(1)
    \/ phantom_after_get(1)
    \/ \E resp \in DispatchResponses(th[1].opaque) : introspect_return(1, resp)
    \/ phantom_set(1)
    \/ dispatch_post(1)
    \/ dispatch_return(1)

SpecDispatch == Init /\ [][NextDispatch]_vars

\* ------------------------------------------------- the lock, step by step
\* phantomAuthCheck with every Lock and Unlock of get and set a step of its
\* own, so that a state shows who holds the mutex.  The janitor's two
\* functions stay one step each: they wait for the lock like any writer.

\* c.mu.RLock(); ce, ok := c.data[key]
get_RLock(t) ==
    /\ th[t].pc = "get_read"
    /\ CanRLock(mu)
    /\ mu' = RLock(mu, t)
    /\ th' = [th EXCEPT ![t].ce = lookup(data, th[t].key),
                        ![t].did = Append(@, "get"),
                        ![t].pc = "get_rlocked"]
    /\ UNCHANGED <<now, data, jan, lastSet, lastIntro, env>>

\* c.mu.RUnlock(), and the two tests that follow
get_RUnlock(t) ==
    /\ th[t].pc = "get_rlocked"
    /\ mu' = RUnlock(mu, t)
    /\ LET ce == th[t].ce IN
       th' = [th EXCEPT ![t].pc = IF ce.ok /\ getExpired(th[t].tnow, ce)
                                  THEN "get_lock" ELSE "get_ret",
                        ![t].ret = IF ce.ok /\ ~getExpired(th[t].tnow, ce)
                                   THEN [jwt |-> ce.JWT, ok |-> TRUE] ELSE NoRet]
    /\ UNCHANGED <<now, data, jan, lastSet, lastIntro, env>>

\* c.mu.Lock(); delete(c.data, key)
get_Lock(t) ==
    /\ th[t].pc = "get_lock"
    /\ CanLock(mu)
    /\ mu' = Lock(mu, t)
    /\ data' = delete(data, th[t].key)
    /\ th' = [th EXCEPT ![t].pc = "get_locked", ![t].did = Append(@, "delete")]
    /\ lastIntro' = Dropped({th[t].key} \cap DOMAIN data)
    /\ UNCHANGED <<now, jan, lastSet, env>>

\* c.mu.Unlock(); return "", false
get_Unlock(t) ==
    /\ th[t].pc = "get_locked"
    /\ mu' = Unlock(mu, t)
    /\ th' = [th EXCEPT ![t].pc = "get_ret", ![t].ret = NoRet]
    /\ UNCHANGED <<now, data, jan, lastSet, lastIntro, env>>

\* c.mu.Lock(); if time.Now().Add(clockSkew).Before(exp) { c.data[key] = ... }
set_Lock(t) ==
    /\ th[t].pc = "set"
    /\ CanLock(mu)
    /\ mu' = Lock(mu, t)
    /\ data' = set(data, now, th[t].key, th[t].jwt, storeUntil(th[t].exp))
    /\ th' = [th EXCEPT ![t].pc = "set_locked", ![t].did = Append(@, "set")]
    /\ UNCHANGED <<now, jan, lastSet, lastIntro, env>>

\* c.mu.Unlock(), and phantomAuthCheck's accepting return
set_Unlock(t) ==
    /\ th[t].pc = "set_locked"
    /\ mu' = Unlock(mu, t)
    /\ th' = [th EXCEPT ![t] = [@ EXCEPT !.pc = "done", !.path = "miss",
                                         !.key = <<>>, !.jwt = <<>>, !.exp = 0,
                                         !.obj = accept(@, th[t].jwt, th[t].opaque)]]
    /\ UNCHANGED <<now, data, jan, lastSet, lastIntro, env>>

\* Two requests at a time for one token; the endpoint answers with a JWT or
\* not at all.
LockObjs == {Obj("PhantomAuthCheck", Req(HdrA), NilV, NilV)}

LockResponses(c) == {[kind |-> "transport"], Body(JwtOf(c, "p90"))}

NextLocks ==
    \/ \E t \in Threads : \E o \in LockObjs : dispatch_start(t, o)
    \/ \E t \in Threads : get_RLock(t)
    \/ \E t \in Threads : get_RUnlock(t)
    \/ \E t \in Threads : get_Lock(t)
    \/ \E t \in Threads : get_Unlock(t)
    \/ \E t \in Threads : phantom_after_get(t)
    \/ \E t \in Threads : \E resp \in LockResponses(th[t].opaque) : introspect_return(t, resp)
    \/ \E t \in Threads : set_Lock(t)
    \/ \E t \in Threads : set_Unlock(t)
    \/ \E t \in Threads : dispatch_return(t)
    \/ janitor_tick
    \/ janitor_purge
    \/ janitor_enforceCap
    \/ Tick

SpecLocks == Init /\ [][NextLocks]_vars

\* ------------------------------------------------- two misses on one key
\* Two requests at a time bearing the same token; the endpoint answers each
\* introspection with a JWT of its own.
RaceResponses(c) == {Body(JwtOf(c, "p90")), Body(JwtOf(c, "p150") \o <<"\n">>)}

NextRace ==
    \/ \E t \in Threads : \E o \in LockObjs : dispatch_start(t, o)
    \/ \E t \in Threads : get_read(t)
    \/ \E t \in Threads : get_delete(t)
    \/ \E t \in Threads : phantom_after_get(t)
    \/ \E t \in Threads : \E resp \in RaceResponses(th[t].opaque) : introspect_return(t, resp)
    \/ \E t \in Threads : phantom_set(t)
    \/ \E t \in Threads : dispatch_return(t)
    \/ Tick

SpecRace == Init /\ [][NextRace]_vars

\* ------------------------------------------------- tokens without an expiry
\* Two requests at a time for one token, the janitor and the clock running,
\* the process started with the default margin or with none; the endpoint
\* answers an introspection with a JWT whose expiry can be read
\* or with one whose expiry cannot: a payload that is not JSON for the first
\* request, a textual expiry for the second.
FallbackResponses(t, c) ==
    {Body(JwtOf(c, p)) : p \in {"p90", IF t = 1 THEN "pjunk" ELSE "ps90"}}

NextFallback ==
    \/ \E t \in Threads : \E o \in LockObjs : dispatch_start(t, o)
    \/ \E t \in Threads : get_read(t)
    \/ \E t \in Threads : get_delete(t)
    \/ \E t \in Threads : phantom_after_get(t)
    \/ \E t \in Threads : \E resp \in FallbackResponses(t, th[t].opaque) : introspect_return(t, resp)
    \/ \E t \in Threads : phantom_set(t)
    \/ \E t \in Threads : dispatch_return(t)
    \/ janitor_tick
    \/ janitor_purge
    \/ janitor_enforceCap
    \/ Tick

\* CLOCK_SKEW_SECONDS unset, hence the default, or set to no margin at all
SkewValues == {<<>>, <<"0">>}

InitFallback ==
    /\ now = 0
    /\ data = [k \in {} |-> NoEntry]
    /\ th = [t \in Threads |-> Idle]
    /\ jan = JanIdle
    /\ lastSet = NoSet
    /\ lastIntro = [k \in AllKeys |-> NoIntro]
    /\ env \in {Environ(EnvOf(CacheMax), k) : k \in SkewValues}
    /\ mu = MuFree

SpecFallback == InitFallback /\ [][NextFallback]_vars

\* ------------------------------------------------- parseJWTExp on its own
\* One goroutine calls parseJWTExp with a string of one to four segments:
\* jwt holds the argument, path the error's text and exp the instant.
ParseSegments == {<<>>, <<"!!">>, <<"hA">>, <<"sig">>} \cup {<<p>> : p \in PayloadTokens}

ParseInputs ==
    LET F == {<<>>, <<"hA">>}
        L == {<<>>, <<"sig">>}
    IN  ParseSegments
        \cup {m \o <<".">> \o l : m \in ParseSegments, l \in L}
        \cup {f \o <<".">> \o m \o <<".">> \o l : f \in F, m \in ParseSegments, l \in L}
        \cup {f \o <<".">> \o m \o <<".">> \o l \o <<".">> \o x :
                f \in F, m \in ParseSegments, l \in L, x \in L}

parse_call(t, j) ==
    /\ th[t].pc = "idle"
    /\ LET r == parseJWTExp(j) IN
       th' = [th EXCEPT ![t] = [Idle EXCEPT !.pc = "parsed", !.op = "parseJWTExp",
                                            !.jwt = j, !.path = r.err, !.exp = r.exp]]
    /\ UNCHANGED <<now, data, jan, lastSet, lastIntro, env, mu>>

parse_return(t) ==
    /\ th[t].pc = "parsed"
    /\ th' = [th EXCEPT ![t] = Idle]
    /\ UNCHANGED <<now, data, jan, lastSet, lastIntro, env, mu>>

NextParse ==
    \/ \E j \in ParseInputs : parse_call(1, j)
    \/ parse_return(1)

SpecParse == Init /\ [][NextParse]_vars

\* ----------------------------------------------------------------- claims
\* C1 as stated: a get that finds the entry (J, exp) of the last accepted set
\* returns (J, found) when called at t < exp - clockSkew and not-found when
\* called at t > exp - clockSkew.
C1_WindowEndsAtExpMinusSkew ==
    \A t \in Threads :
        (th[t].pc = "get_ret" /\ th[t].ce.ok) =>
            /\ (th[t].tnow < th[t].ce.Expires - clockSkew =>
                    th[t].ret = [jwt |-> th[t].ce.JWT, ok |-> TRUE])
            /\ (th[t].tnow > th[t].ce.Expires - clockSkew => ~th[t].ret.ok)

\* C1 amended: a get that finds the entry (J, exp) of the last accepted set
\* returns (J, found) when called at t <= exp and not-found when called at
\* t > exp; the clock-skew margin plays no part in get.
C1_WindowEndsAtExp ==
    \A t \in Threads :
        (th[t].pc = "get_ret" /\ th[t].ce.ok) =>
            /\ (th[t].tnow <= th[t].ce.Expires =>
                    th[t].ret = [jwt |-> th[t].ce.JWT, ok |-> TRUE])
            /\ (th[t].tnow > th[t].ce.Expires => ~th[t].ret.ok)

\* a get called inside the skew margin of a stored entry, at its very expiry
\* instant, has returned the entry
C1_Witness ==
    \E t \in Threads :
        /\ th[t].pc = "get_ret" /\ th[t].op = "get"
        /\ th[t].ce.ok /\ th[t].ret.ok
        /\ th[t].tnow = th[t].ce.Expires
        /\ th[t].tnow > th[t].ce.Expires - clockSkew

\* C2: a set(k, jwt, exp) with exp - clockSkew <= now leaves the map as it
\* was; every entry in the map, and every entry a get returns, had
\* exp - clockSkew > now when it was inserted.
C2_TTLOnInsert ==
    /\ (lastSet.called /\ lastSet.late) => ~lastSet.changed
    /\ \A k \in DOMAIN data : data[k].ttlOk
    /\ \A t \in Threads : th[t].ret.ok => th[t].ce.ttlOk

\* the last set came too late and did nothing, while a get has returned an
\* entry an earlier set stored
C2_Witness ==
    /\ lastSet.called /\ lastSet.late /\ ~lastSet.changed
    /\ \E t \in Threads : th[t].pc = "get_ret" /\ th[t].ret.ok /\ th[t].ce.ttlOk

\* C3: whenever get(k) returns (v, found), v is the JWT of an entry stored
\* under k whose Expires is not before the instant of the get call.
C3_GetNeverServesExpired ==
    \A t \in Threads :
        (th[t].pc = "get_ret" /\ th[t].op = "get" /\ th[t].ret.ok) =>
            /\ th[t].ce.ok
            /\ th[t].ret.jwt = th[t].ce.JWT
            /\ th[t].ret.jwt \in HarnessJwts(th[t].key)
            /\ th[t].ce.Expires >= th[t].tnow

\* a get has returned an entry after the clock moved on and the janitor ran
\* at least one enforceCap pass over a full map
C3_Witness ==
    \E t \in Threads :
        /\ th[t].pc = "get_ret" /\ th[t].op = "get" /\ th[t].ret.ok
        /\ th[t].tnow > 0
        /\ jan.over

\* C4: with cacheMax > 0, as enforceCap returns the map holds at most
\* cacheMax entries, whatever it held before.
C4_CapacityBound ==
    [][(cacheMax > 0 /\ jan.pc = "cap" /\ jan'.pc = "wait") =>
            Cardinality(DOMAIN data') <= cacheMax]_vars

\* the last enforceCap found more than cacheMax entries, none of them
\* expired, and the map is within the bound
C4_Witness ==
    /\ cacheMax > 0
    /\ jan.pc = "wait"
    /\ jan.over
    /\ Cardinality(DOMAIN data) = cacheMax
    /\ \A k \in DOMAIN data : data[k].Expires > now + GraceWindow

\* What the record carried in and carries out.
AuthIn(o) == MapGet(GetHeaders(o), "Authorization")

JwtIn(o) == IF o.Metadata.nil THEN <<>> ELSE MapGet(o.Metadata.m, "phantom_jwt")

AuthOut(o) == IF o.Request.nil THEN <<>> ELSE MapGet(MapOf(o.Request.SetHeaders), "Authorization")

\* the 401 short-circuit with message msg, complete
Is401(o, msg) ==
    /\ Rejected(o)
    /\ o.Request.ReturnOverrides.ResponseError = msg
    /\ o.Request.ReturnOverrides.ResponseBody = msg
    /\ o.Request.ReturnOverrides.OverrideError
    /\ MapGet(MapOf(o.Request.ReturnOverrides.Headers), "WWW-Authenticate") = WwwAuthenticate

\* C5 as stated: once phantomAuthCheck has accepted a token through an
\* introspection that returned a JWT expiring at exp, and nothing was evicted
\* since, a later phantomAuthCheck for the same token that arrives before
\* exp - clockSkew is served from the cache (and so sends no introspection).
C5_ReuseBeforeExpMinusSkew ==
    \A t \in Threads :
        (/\ th[t].pc = "get_ret"
         /\ th[t].op = "PhantomAuthCheck"
         /\ th[t].li.state # "none"
         /\ th[t].tnow < th[t].li.exp - clockSkew) => th[t].ret.ok

\* C5 amended: if moreover the first request wrote the cache before
\* exp - 2*clockSkew (so that set kept the entry), and the entry was still in
\* the map when the second request's lookup read it (not removed by the
\* capacity eviction, by the sweep or by the delete of any lookup, and not
\* overwritten by another request's write), then a later phantomAuthCheck
\* for the same token that arrives before exp - clockSkew is served that
\* token's JWT from the cache and sends no introspection.
C5_ReuseWhenStored ==
    \A t \in Threads :
        /\ (/\ th[t].pc = "get_ret"
            /\ th[t].op = "PhantomAuthCheck"
            /\ th[t].li.state = "stored"
            /\ th[t].tnow < th[t].li.exp - clockSkew) =>
                (th[t].ret.ok /\ th[t].ret.jwt \in IssuedFor(th[t].opaque))
        /\ (th[t].path = "hit" => th[t].did = <<"get">>)

\* a later request, arriving before exp - clockSkew, found the entry the
\* first request stored
C5_Witness ==
    \E t \in Threads :
        /\ th[t].pc = "get_ret" /\ th[t].op = "PhantomAuthCheck"
        /\ th[t].li.state = "stored"
        /\ th[t].tnow < th[t].li.exp - clockSkew
        /\ th[t].tnow > 0
        /\ th[t].ret.ok

\* C6: phantomAuthCheck on a record whose Authorization header is absent,
\* empty or not "Bearer <token>" returns the 401 "Missing bearer token"
\* having done no cache lookup, no cache write and no introspection, and
\* leaves the metadata as it came.
C6_MissingBearer ==
    \A t \in Threads :
        (/\ th[t].pc = "done"
         /\ th[t].op = "PhantomAuthCheck"
         /\ AuthIn(th[t].in) \in MalformedHeaders) =>
            /\ Is401(th[t].obj, MsgMissing)
            /\ th[t].did = <<>>
            /\ th[t].obj.Metadata = th[t].in.Metadata

\* a request with another scheme's header was rejected while the cache held
\* an entry
C6_Witness ==
    \E t \in Threads :
        /\ th[t].pc = "done" /\ th[t].op = "PhantomAuthCheck"
        /\ AuthIn(th[t].in) = HdrBasic
        /\ Is401(th[t].obj, MsgMissing)
        /\ DOMAIN data # {}

\* C7: after a cache miss, a transport failure or a status other than 200
\* gives the 401 "Introspection error: <error>" (for a status, the error is
\* "introspection status <code>: " and the first 512 bytes of the body,
\* trimmed), and a 200 whose body has not
\* three segments gives the 401 "Token inactive or invalid"; the invocation
\* sent exactly one introspection request, did nothing to the cache after
\* the lookup, and left the metadata as it came (no phantom_jwt).
C7_IntrospectionFailure ==
    \A t \in Threads :
        (/\ th[t].pc = "done"
         /\ th[t].op = "PhantomAuthCheck"
         /\ \/ th[t].resp.kind \in {"transport", "status"}
            \/ (th[t].resp.kind = "body" /\ Len(Split(TrimSpace(th[t].resp.body))) # 3)) =>
            /\ IF th[t].resp.kind = "body"
               THEN Is401(th[t].obj, MsgInactive)
               ELSE IF th[t].resp.kind = "transport"
               THEN Is401(th[t].obj, <<"Introspection error: ">> \o ErrTransport)
               ELSE Is401(th[t].obj,
                          <<"Introspection error: ", "introspection status ",
                            th[t].resp.code, ": ">>
                          \o TrimSpace(LimitRead(th[t].resp.body, ErrBodyLimit)))
            /\ th[t].did \in {<<"get", "introspect">>, <<"get", "delete", "introspect">>}
            /\ th[t].obj.Metadata = th[t].in.Metadata
            /\ JwtIn(th[t].obj) = <<>>

\* the lookup found and dropped an expired entry, the introspection timed
\* out, and the request was rejected
C7_Witness ==
    \E t \in Threads :
        /\ th[t].pc = "done" /\ th[t].op = "PhantomAuthCheck"
        /\ th[t].resp.kind = "transport"
        /\ th[t].did = <<"get", "delete", "introspect">>
        /\ Rejected(th[t].obj)

\* C8 as stated: injectJwtPostKeyAuth looks at metadata phantom_jwt only.
\* Absent or empty: the 401 "JWT missing post-auth", SetHeaders untouched.
\* Present: it returns the record with SetHeaders["Authorization"] =
\* "Bearer <jwt>" and the overrides untouched.  No cache or network
\* operation either way.
C8_Phase2OnMetadata ==
    \A t \in Threads :
        (th[t].op = "InjectJwtPostKeyAuth" /\ th[t].pc \in {"done", "panic"}) =>
            /\ th[t].did = <<>>
            /\ IF JwtIn(th[t].in) = <<>>
               THEN /\ th[t].pc = "done"
                    /\ Is401(th[t].obj, MsgPost)
                    /\ AuthOut(th[t].obj) = AuthOut(th[t].in)
               ELSE /\ th[t].pc = "done"
                    /\ AuthOut(th[t].obj) = <<"Bearer", " ">> \o JwtIn(th[t].in)
                    /\ th[t].obj.Request.ReturnOverrides = th[t].in.Request.ReturnOverrides

\* C9: when phantomAuthCheck has accepted a record bearing opaque token c,
\* its phantom_jwt is a JWT the introspection endpoint issued for c; when
\* injectJwtPostKeyAuth then runs on that record, the outbound Authorization
\* is "Bearer " followed by such a JWT, never by c itself.
C9_CredentialIsolation ==
    \A t \in Threads :
        /\ (th[t].op = "PhantomAuthCheck" /\ th[t].pc = "done" /\ ~Rejected(th[t].obj)) =>
                JwtIn(th[t].obj) \in IssuedFor(th[t].opaque)
        /\ (th[t].op = "InjectJwtPostKeyAuth" /\ th[t].opaque # <<>>
            /\ th[t].pc \in {"done", "panic"}) =>
                /\ th[t].pc = "done"
                /\ ~Rejected(th[t].obj)
                /\ \E j \in IssuedFor(th[t].opaque) :
                        AuthOut(th[t].obj) = <<"Bearer", " ">> \o j
                /\ AuthOut(th[t].obj) # <<"Bearer", " ">> \o th[t].opaque

\* the record of a request bearing b went through both hooks while the
\* cache also held the JWT of a
C9_Witness ==
    \E t \in Threads :
        /\ th[t].op = "InjectJwtPostKeyAuth" /\ th[t].pc = "done"
        /\ th[t].opaque = <<"b">>
        /\ th[t].did = <<>>
        /\ AuthOut(th[t].obj) = <<"Bearer", " ">> \o JwtOf(<<"b">>, "p90")
        /\ sha256Hex(<<"a">>) \in DOMAIN data

\* C10 as stated: every Dispatch returns a record, an accept or a complete
\* 401 short-circuit; none faults.
C10_DispatchAlwaysReturns ==
    \A t \in Threads :
        /\ th[t].pc # "panic"
        /\ (th[t].pc = "done" /\ Rejected(th[t].obj)) =>
                Is401(th[t].obj, th[t].obj.Request.ReturnOverrides.ResponseError)

\* C11: Dispatch with a hook name other than PhantomAuthCheck and
\* InjectJwtPostKeyAuth returns the record as it came (headers, metadata,
\* session and overrides alike) having done no cache operation and sent no
\* introspection.
C11_OtherHookPassThrough ==
    \A t \in Threads :
        (/\ th[t].pc \in {"done", "panic", "get_read"}
         /\ th[t].in.HookName \notin {"PhantomAuthCheck", "InjectJwtPostKeyAuth"}) =>
            /\ th[t].pc = "done"
            /\ th[t].obj = th[t].in
            /\ th[t].did = <<>>

\* a record for the auth check's name in lower case, bearing a token and a
\* phantom_jwt, came back untouched while the cache held an entry
C11_Witness ==
    \E t \in Threads :
        /\ th[t].pc = "done"
        /\ th[t].in.HookName = "phantomauthcheck"
        /\ AuthIn(th[t].in) = HdrB
        /\ JwtIn(th[t].in) = SomeJwt
        /\ th[t].obj = th[t].in
        /\ DOMAIN data # {}

\* C12 as stated: in a process configured with a capacity of 0 or a negative
\* number, a reclamation pass removes expired entries only: neither the
\* sweep nor capacity enforcement takes an unexpired entry out of the cache.
C12_NonPositiveDisables ==
    [][(/\ Atoi(Getenv("CACHE_MAX_ENTRIES")).ok
        /\ Atoi(Getenv("CACHE_MAX_ENTRIES")).val <= 0
        /\ jan.pc \in {"purge", "cap"}
        /\ jan'.pc # jan.pc) =>
            \A k \in DOMAIN data \ DOMAIN data' : data[k].Expires < now]_vars

\* C13 as stated: the only change a get(k) makes to the cache is to remove
\* the entry of k, and only one that is expired at the moment it is removed
\* (never a fresh entry a set wrote after get read the map); every other
\* key keeps its entry.
C13_GetRemovesOnlyExpired ==
    [][\A t \in Threads :
        (th[t].op = "get" /\ th'[t] # th[t]) =>
            /\ \A k \in DOMAIN data \ {th[t].key} :
                    k \in DOMAIN data' /\ data'[k] = data[k]
            /\ (th[t].key \in DOMAIN data /\ th[t].key \notin DOMAIN data') =>
                    data[th[t].key].Expires < now
            /\ DOMAIN data' \subseteq DOMAIN data]_vars

\* C14: in one pass of capacity enforcement, an entry with more than the
\* grace window (2 minutes) left is deleted only after every entry that was
\* expired or had less than the grace window left has been deleted.
C14_NearlyDeadFirst ==
    [][(jan.pc = "cap" /\ jan'.pc = "wait") =>
        LET ev == jan'.evicted
            dying(e) == e <= now \/ e - now < GraceWindow
            all == Cardinality({k \in DOMAIN data : dying(data[k].Expires)})
        IN  \A i \in 1..Len(ev) :
                (ev[i] - now > GraceWindow) =>
                    Cardinality({j \in 1..(i - 1) : dying(ev[j])}) = all]_vars

\* a pass deleted an entry with under two minutes left and then one with
\* more
C14_Witness ==
    /\ jan.pc = "wait"
    /\ Len(jan.evicted) = 2
    /\ jan.evicted[1] < GraceWindow
    /\ jan.evicted[2] > now + GraceWindow

\* C15: a sweep deletes every entry whose Expires had passed when the sweep
\* started and leaves every other entry as it was; and, the janitor being
\* scheduled fairly, an entry whose Expires has passed leaves the cache in
\* the end though nobody looks its key up.
C15_SweepAndLiveness ==
    /\ [][(jan.pc = "purge" /\ jan'.pc = "cap") =>
            /\ DOMAIN data' \subseteq DOMAIN data
            /\ \A k \in DOMAIN data :
                  IF data[k].Expires < jan.pnow
                  THEN k \notin DOMAIN data'
                  ELSE k \in DOMAIN data' /\ data'[k] = data[k]]_vars
    /\ \A k \in HarnessKeys : \A e \in ExpChoices :
          (k \in DOMAIN data /\ data[k].Expires = e /\ e < now)
              ~> ~(k \in DOMAIN data /\ data[k].Expires = e)

\* a sweep has just deleted an expired entry and left an unexpired one
C15_Witness ==
    /\ jan.pc = "cap"
    /\ jan.swept
    /\ \E k \in DOMAIN data : data[k].Expires > now

\* C16: a phantomAuthCheck that is waiting for the introspection response
\* holds neither the read lock nor the write lock of the cache; if nobody
\* else holds the lock either, the janitor's pass can go on.
C16_NoLockAcrossIntrospection ==
    \A t \in Threads :
        th[t].pc = "introspect" =>
            /\ t \notin mu.r
            /\ mu.w # t
            /\ (jan.pc = "purge" /\ \A u \in Threads \ {t} : th[u].pc \in {"idle", "introspect"})
                    => ENABLED janitor_purge

\* one request waits for the endpoint while the other is inside set, holding
\* the write lock
C16_Witness ==
    /\ th[1].pc = "introspect"
    /\ th[2].pc = "set_locked"
    /\ mu.w = 2

\* the entry set is asked to store for the JWT a response carried
PairOf(resp) ==
    [JWT |-> TrimSpace(resp.body),
     Expires |-> parseJWTExp(TrimSpace(resp.body)).exp - clockSkew]

\* C17: of two phantomAuthCheck invocations for one token that both missed
\* the cache, each introspected once and was accepted with the JWT of its own
\* introspection; the cache then holds for the key nothing or the (JWT,
\* expiresAt) pair of one of the two; every write to the cache stores the
\* writer's own pair whole, and a set whose expiry passes set's test leaves
\* the writer's pair in the cache over whatever was there (the last write
\* wins).
C17_RacingMisses ==
    /\ [](\A t \in Threads :
            (th[t].pc = "done" /\ th[t].path = "miss") =>
                /\ JwtIn(th[t].obj) = TrimSpace(th[t].resp.body)
                /\ Len(SelectSeq(th[t].did, LAMBDA x : x = "introspect")) = 1
                /\ LET k == sha256Hex(th[t].opaque) IN
                   (k \in DOMAIN data /\ \A u \in Threads : th[u].pc = "done" /\ th[u].path = "miss")
                      => \E u \in Threads :
                            /\ data[k].JWT = PairOf(th[u].resp).JWT
                            /\ data[k].Expires = PairOf(th[u].resp).Expires)
    /\ [][\A k \in DOMAIN data' :
            (k \notin DOMAIN data \/ data'[k] # data[k]) =>
                \E t \in Threads :
                    /\ th[t].pc = "set" /\ th'[t].pc = "done"
                    /\ th[t].key = k
                    /\ data'[k].JWT = PairOf(th[t].resp).JWT
                    /\ data'[k].Expires = PairOf(th[t].resp).Expires]_vars
    /\ [][\A t \in Threads :
            (/\ th[t].pc = "set" /\ th'[t].pc = "done"
             /\ now + clockSkew < PairOf(th[t].resp).Expires) =>
                /\ th[t].key \in DOMAIN data'
                /\ data'[th[t].key].JWT = PairOf(th[t].resp).JWT
                /\ data'[th[t].key].Expires = PairOf(th[t].resp).Expires]_vars

\* both requests missed at the same instant and were given different JWTs;
\* the cache holds the pair of the second
C17_Witness ==
    /\ now = 0
    /\ \A t \in Threads : th[t].pc = "done" /\ th[t].path = "miss"
    /\ JwtIn(th[1].obj) = JwtOf(<<"a">>, "p90")
    /\ JwtIn(th[2].obj) = JwtOf(<<"a">>, "p150")
    /\ sha256Hex(<<"a">>) \in DOMAIN data
    /\ data[sha256Hex(<<"a">>)].JWT = JwtOf(<<"a">>, "p150")
    /\ data[sha256Hex(<<"a">>)].Expires = 150 - clockSkew

\* the expiry of a token cannot be extracted
NoExp(j) == parseJWTExp(j).err # ""

\* C18: when the introspection answers with a three-segment token whose
\* expiry cannot be extracted, introspectForJWTAndExp gives it the expiry 30
\* seconds after the instant of its return, phantomAuthCheck accepts the
\* request with that token as phantom_jwt, and the entry its set writes
\* holds that token and expires no later than that instant; any entry the
\* cache holds for such a token expires within 30 seconds.
C18_FallbackValidity ==
    /\ [](\A t \in Threads :
            (/\ th[t].pc = "done"
             /\ th[t].op = "PhantomAuthCheck"
             /\ th[t].resp.kind = "body"
             /\ Len(Split(TrimSpace(th[t].resp.body))) = 3
             /\ NoExp(TrimSpace(th[t].resp.body))) =>
                /\ ~Rejected(th[t].obj)
                /\ JwtIn(th[t].obj) = TrimSpace(th[t].resp.body)
                /\ MapGet(th[t].obj.Metadata.m, "token") = th[t].opaque)
    /\ [][\A t \in Threads :
            (th[t].pc = "introspect" /\ th'[t].pc = "set" /\ NoExp(th'[t].jwt)) =>
                th'[t].exp = now + FallbackValidity]_vars
    /\ [][\A t \in Threads :
            (/\ th[t].pc = "set" /\ th'[t].pc = "done" /\ NoExp(th[t].jwt)
             /\ th[t].key \in DOMAIN data'
             /\ (th[t].key \in DOMAIN data => data'[th[t].key] # data[th[t].key])) =>
                /\ data'[th[t].key].JWT = th[t].jwt
                /\ data'[th[t].key].Expires <= th[t].exp]_vars
    /\ [](\A k \in DOMAIN data :
            NoExp(data[k].JWT) => data[k].Expires <= now + FallbackValidity)

\* a token whose middle segment is not JSON was accepted and the cache
\* holds the entry that request's set wrote for it
C18_Witness ==
    \E t \in Threads :
        /\ th[t].pc = "done"
        /\ th[t].op = "PhantomAuthCheck"
        /\ th[t].path = "miss"
        /\ th[t].resp.kind = "body"
        /\ th[t].resp.body = JwtOf(th[t].opaque, "pjunk")
        /\ JwtIn(th[t].obj) = JwtOf(th[t].opaque, "pjunk")
        /\ ~Rejected(th[t].obj)
        /\ sha256Hex(th[t].opaque) \in DOMAIN data
        /\ data[sha256Hex(th[t].opaque)].JWT = JwtOf(th[t].opaque, "pjunk")
        /\ data[sha256Hex(th[t].opaque)].Expires > now

\* the number of segments of a string: one more than its dots
Segments(j) == Cardinality({i \in 1..Len(j) : j[i] = "."}) + 1

\* the middle segment of a string of three segments
Middle(j) ==
    LET d == {i \in 1..Len(j) : j[i] = "."}
    IN  SubSeq(j, MinOf(d) + 1, MaxOf(d) - 1)

\* C19 as stated: parseJWTExp returns the instant of exp when exp is a
\* number and also when it is the text of a number, and fails, each in its
\* own way, on a wrong segment count, a middle segment that is not base64url,
\* content that is not JSON, a missing exp and an exp of another type; it
\* never succeeds with another instant than exp's.
C19_ExpByShape ==
    \A t \in Threads :
        th[t].pc = "parsed" =>
            LET j == th[t].jwt
                m == Middle(j)
            IN  IF Segments(j) # 3 THEN th[t].path = "not a compact JWS"
                ELSE IF m = <<"!!">> THEN th[t].path = "payload b64 decode"
                ELSE IF m \in {<<>>, <<"hA">>, <<"sig">>, <<"pjunk">>} THEN th[t].path = "payload json"
                ELSE IF m = <<"pnone">> THEN th[t].path = "no exp claim"
                ELSE IF m = <<"pbool">> THEN th[t].path = "exp type unsupported"
                ELSE /\ th[t].path = ""
                     /\ th[t].exp = (IF m = <<"p60">> THEN 60
                                     ELSE IF m = <<"p150">> THEN 150 ELSE 90)

\* C20 as stated: a JWT that phantomAuthCheck takes from the cache declares
\* an expiry at least clockSkew after the instant of the lookup that found
\* it, and every entry of the cache expires clockSkew before its JWT does.
C20_MarginOnHits ==
    /\ \A t \in Threads :
          (th[t].pc = "get_ret" /\ th[t].op = "PhantomAuthCheck" /\ th[t].ret.ok) =>
              /\ parseJWTExp(th[t].ret.jwt).err = ""
              /\ parseJWTExp(th[t].ret.jwt).exp >= th[t].tnow + clockSkew
    /\ \A k \in DOMAIN data :
          /\ parseJWTExp(data[k].JWT).err = ""
          /\ data[k].Expires = parseJWTExp(data[k].JWT).exp - clockSkew

\* C20: a JWT taken from the cache whose expiry parseJWTExp reads declares an
\* expiry at least clockSkew after the instant of the lookup that found it,
\* its entry expiring clockSkew before it does; a JWT whose expiry
\* parseJWTExp does not read is in the cache only when twice clockSkew is
\* less than the fallback validity, in an entry that expires no later than
\* the fallback validity less clockSkew from now.
C20_MarginWhenRead ==
    /\ \A t \in Threads :
          (th[t].pc = "get_ret" /\ th[t].op = "PhantomAuthCheck" /\ th[t].ret.ok) =>
              IF NoExp(th[t].ret.jwt)
              THEN 2 * clockSkew < FallbackValidity
              ELSE parseJWTExp(th[t].ret.jwt).exp >= th[t].tnow + clockSkew
    /\ \A k \in DOMAIN data :
          IF NoExp(data[k].JWT)
          THEN /\ 2 * clockSkew < FallbackValidity
               /\ data[k].Expires <= now + FallbackValidity - clockSkew
          ELSE data[k].Expires = parseJWTExp(data[k].JWT).exp - clockSkew

\* a hit at the last instant of the entry's life, exactly one non-zero
\* clockSkew before the JWT expires
C20_Witness ==
    \E t \in Threads :
        /\ th[t].pc = "get_ret" /\ th[t].op = "PhantomAuthCheck"
        /\ th[t].ret.ok
        /\ th[t].tnow > 0
        /\ clockSkew > 0
        /\ ~NoExp(th[t].ret.jwt)
        /\ parseJWTExp(th[t].ret.jwt).exp = th[t].tnow + clockSkew

====
